---- MODULE Spec2Model ----
(***************************************************************************)
(* QComNetSim: the event scheduler of benches/python/scheduler_benchmark.py *)
(* and the two-node Barrett-Kok experiment driver of                        *)
(* src/validation/sequence/two_node_barrett_kok.py,                         *)
(* and the quantum state primitives of benches/python/quantum_benchmark.py. *)
(*                                                                          *)
(* The specifications of the module:                                        *)
(*   SchedSpec  the EventScheduler (a heapq of Events) under any sequence   *)
(*              of schedule / next_event calls;                             *)
(*   Spec       run_experiment: the attempt loop, the SimpleManager of each *)
(*              end node and the statistics, over the timeline, protocol,   *)
(*              BSM and channels the driver calls (LiveSpec: with the       *)
(*              fairness of its sequential execution);                      *)
(*   FidSpec    fidelity on pairs of state vectors;                         *)
(*   GateSpec   apply_gate, repeatedly, with the four provided gates.       *)
(* Times of the scheduler are in milliseconds (the benchmark's i * 0.001);  *)
(* times of the experiment are in units of 1e8 ps.                          *)
(***************************************************************************)
EXTENDS Integers, Sequences, FiniteSets, TLC

VARIABLES
    \* ---- EventScheduler (scheduler_benchmark.py)
    queue,        \* EventScheduler.queue: the heapq list of Events
    nsched,       \* number of schedule calls made so far (the benchmark's i)
    popped,       \* the Events next_event has returned, in order of return
    raised,       \* the exception the last scheduler call raised, or "none"
    \* ---- run_experiment (two_node_barrett_kok.py)
    pc,           \* position of run_experiment
    num_attempts, \* its parameter
    attempt,      \* completed iterations of the attempt loop
    trans,        \* transmission probability of qc1 and qc2, in percent
    det_eff,      \* BSM detector efficiency, in percent
    tl_time,      \* Timeline.time
    events,       \* Timeline's pending events, earliest first
    proto,        \* state of each node's protocol instance
    mem,          \* each node's Memory: mode and fidelity
    mgr,          \* each node's SimpleManager
    bsm,          \* the BSM mediator: photons received in the open window
    lost,         \* nodes whose photon the quantum channel lost this attempt
    result,       \* the statistics run_experiment returns
    \* ---- quantum state primitives (quantum_benchmark.py, parallel_benchmark.py)
    hnum,         \* numerator of the stored factor 1/np.sqrt(2), over HDen
    qa,           \* fidelity's first argument
    qb,           \* fidelity's second argument
    fid,          \* what the fidelity call returned or raised
    qstate,       \* the state the gate benchmarks keep applying gates to
    gate,         \* the gate applied last
    napps         \* number of apply_gate calls so far

schedVars == <<queue, nsched, popped, raised>>
expVars == <<pc, num_attempts, attempt, trans, det_eff, tl_time, events,
             proto, mem, mgr, bsm, lost, result>>
qVars == <<hnum, qa, qb, fid, qstate, gate, napps>>
vars == <<queue, nsched, popped, raised, pc, num_attempts, attempt, trans,
          det_eff, tl_time, events, proto, mem, mgr, bsm, lost, result,
          hnum, qa, qb, fid, qstate, gate, napps>>

(***************************************************************************)
(* Bounds of the model.                                                    *)
(***************************************************************************)
MaxEvents == 4      \* schedule calls per scheduler run
MaxTime == 2        \* event times are drawn from 0..MaxTime
MaxAttempts == 2    \* num_attempts is drawn from 0..MaxAttempts
MaxDegrade == 1     \* loss-dependent fidelity degradation, in percent
HBits == 4          \* binary digits kept of the stored factor 1/np.sqrt(2)
MaxApps == 3        \* apply_gate calls per gate run

(***************************************************************************)
(* EventScheduler: Event, heapq.heappush, heapq.heappop.                    *)
(* Heap positions are 0-based as in heapq; heap[p + 1] is Python's heap[p]. *)
(***************************************************************************)

\* Event(time, event_type, node_id); the benchmark's node_id is i % 10.
Event(t, i) == [time |-> t, event_type |-> "EntanglementGeneration", node_id |-> i % 10]

\* Event.__lt__: only the time is compared.
Lt(a, b) == a.time < b.time

\* heapq._siftdown(heap, startpos, pos) with newitem already taken out of pos.
RECURSIVE SiftDownFrom(_, _, _, _)
SiftDownFrom(heap, startpos, pos, newitem) ==
    IF pos > startpos
    THEN LET parentpos == (pos - 1) \div 2
             parent == heap[parentpos + 1]
         IN IF Lt(newitem, parent)
            THEN SiftDownFrom([heap EXCEPT ![pos + 1] = parent],
                              startpos, parentpos, newitem)
            ELSE [heap EXCEPT ![pos + 1] = newitem]
    ELSE [heap EXCEPT ![pos + 1] = newitem]

siftdown(heap, startpos, pos) == SiftDownFrom(heap, startpos, pos, heap[pos + 1])

\* The while loop of heapq._siftup: bubble the smaller child up until a leaf.
\* Returns the heap and the leaf position reached.
RECURSIVE SiftUpLoop(_, _)
SiftUpLoop(heap, pos) ==
    LET endpos == Len(heap)
        childpos == 2 * pos + 1
        rightpos == childpos + 1
        c == IF rightpos < endpos /\ ~Lt(heap[childpos + 1], heap[rightpos + 1])
             THEN rightpos ELSE childpos
    IN IF childpos < endpos
       THEN SiftUpLoop([heap EXCEPT ![pos + 1] = heap[c + 1]], c)
       ELSE [heap |-> heap, pos |-> pos]

siftup(heap, pos) ==
    LET newitem == heap[pos + 1]
        r == SiftUpLoop(heap, pos)
    IN siftdown([r.heap EXCEPT ![r.pos + 1] = newitem], pos, r.pos)

heappush(heap, item) == siftdown(Append(heap, item), 0, Len(heap))

\* heapq.heappop: the heap after the pop, and the item returned.
heappop(heap) ==
    LET lastelt == heap[Len(heap)]
        rest == SubSeq(heap, 1, Len(heap) - 1)
    IN IF rest # <<>>
       THEN [heap |-> siftup([rest EXCEPT ![1] = lastelt], 0), item |-> heap[1]]
       ELSE [heap |-> rest, item |-> lastelt]

\* The scheduler's current simulated time: the time of the last dispatched
\* event (0 before any dispatch).
Now == IF popped = <<>> THEN 0 ELSE popped[Len(popped)].time

\* EventScheduler.schedule(event): heappush, whatever the event's time.
schedule(t) ==
    /\ nsched < MaxEvents
    /\ queue' = heappush(queue, Event(t, nsched))
    /\ nsched' = nsched + 1
    /\ raised' = "none"
    /\ UNCHANGED popped

Schedule == \E t \in 0..MaxTime : schedule(t) /\ UNCHANGED <<expVars, qVars>>

\* EventScheduler.next_event() on a non-empty queue: heappop.
NextEvent ==
    /\ queue # <<>>
    /\ LET r == heappop(queue)
       IN /\ queue' = r.heap
          /\ popped' = Append(popped, r.item)
    /\ raised' = "none"
    /\ UNCHANGED <<nsched, expVars, qVars>>

\* EventScheduler.next_event() on an empty queue returns None.
NextEventNone ==
    /\ queue = <<>>
    /\ raised' = "none"
    /\ UNCHANGED <<queue, nsched, popped, expVars, qVars>>

SchedIdle ==
    /\ queue = <<>>
    /\ nsched = 0
    /\ popped = <<>>
    /\ raised = "none"

ExpIdle ==
    /\ pc = "off"
    /\ num_attempts = 0
    /\ attempt = 0
    /\ trans = 0
    /\ det_eff = 0
    /\ tl_time = 0
    /\ events = <<>>
    /\ proto = <<>>
    /\ mem = <<>>
    /\ mgr = <<>>
    /\ bsm = {}
    /\ lost = {}
    /\ result = <<>>

\* No quantum benchmark is running.
QIdle ==
    /\ hnum = 0
    /\ qa = <<>>
    /\ qb = <<>>
    /\ fid = <<>>
    /\ qstate = <<>>
    /\ gate = "none"
    /\ napps = 0

SchedInit == SchedIdle /\ ExpIdle /\ QIdle

SchedNext == Schedule \/ NextEvent \/ NextEventNone

SchedSpec == SchedInit /\ [][SchedNext]_vars

(***************************************************************************)
(* run_experiment: configuration.                                          *)
(***************************************************************************)
Nodes == {"node1", "node2"}

Other(n) == IF n = "node1" THEN "node2" ELSE "node1"

AttemptGap == 1000          \* tl.time = tl.now() + 1e11, in units of 1e8 ps
ClassicalDelay == 1         \* ClassicalChannel(delay=1e8)
RawFidelity == 95           \* Memory(fidelity=0.95), in percent
DetectorEfficiency == 90    \* update_detectors_params('efficiency', 0.9)
UnitsPerSecond == 10000     \* tl.now() / 1e12, in units of 1e8 ps
DetectionWindow == 1        \* how long the BSM waits for the second photon

\* The herald timeout of a node: the round-trip classical delay.
HeraldTimeout == 2 * ClassicalDelay

\* Transmission probabilities (percent) the quantum channels are tried with:
\* none, partial, full.
TransLevels == {0, 50, 100}

\* Detector efficiencies (percent): the driver's 0.9 and the ideal detector.
DetEffLevels == {DetectorEfficiency, 100}

\* The outcomes a Bernoulli sample of probability p percent can have.
Bernoulli(p) == IF p >= 100 THEN {TRUE} ELSE IF p <= 0 THEN {FALSE} ELSE BOOLEAN

\* Mutant of qc_dst: qc2 wired to node1 instead of the BSM node.
qc_dst_Miswired(n) == IF n = "node2" THEN "node1" ELSE "bsm_node"

\* qc1.set_ends(node1, bsm_node.name); qc2.set_ends(node2, bsm_node.name):
\* the receiver of node n's quantum channel.
qc_dst(n) == "bsm_node"

Terminal == {"RAW", "ENTANGLED"}

(***************************************************************************)
(* Timeline: pending events, earliest first, equal times in insertion      *)
(* order.                                                                  *)
(***************************************************************************)
Ev(t, kind, n, ok) == [time |-> t, kind |-> kind, node |-> n, ok |-> ok]

\* Timeline.schedule: insert after every pending event of time <= e.time.
tl_schedule(evs, e) ==
    LET k == Cardinality({j \in 1..Len(evs) : evs[j].time <= e.time})
    IN SubSeq(evs, 1, k) \o <<e>> \o SubSeq(evs, k + 1, Len(evs))

\* ClassicalChannel.send from the BSM node to both end nodes.
send_heralds(evs, now, ok) ==
    tl_schedule(tl_schedule(evs, Ev(now + ClassicalDelay, "herald", "node1", ok)),
                Ev(now + ClassicalDelay, "herald", "node2", ok))

(***************************************************************************)
(* Memory and SimpleManager.                                               *)
(***************************************************************************)
\* Memory.reset()
reset(memory) == [mode |-> "RAW", fidelity |-> 0]

\* SimpleManager.__init__
NewManager == [raw_counter |-> 0, ent_counter |-> 0, fidelities |-> <<>>]

\* Mutant of update: the else is lost, ent_counter counts every call.
update_NoElse(m, memory, state) ==
    IF state = "RAW"
    THEN [mgr |-> [m EXCEPT !.raw_counter = @ + 1, !.ent_counter = @ + 1],
          memory |-> reset(memory)]
    ELSE [mgr |-> [m EXCEPT !.ent_counter = @ + 1,
                            !.fidelities = Append(@, memory.fidelity)],
          memory |-> memory]

\* Mutant of update: the fidelity is inserted at the front of the history.
update_Prepend(m, memory, state) ==
    IF state = "RAW"
    THEN [mgr |-> [m EXCEPT !.raw_counter = @ + 1],
          memory |-> reset(memory)]
    ELSE [mgr |-> [m EXCEPT !.ent_counter = @ + 1,
                            !.fidelities = <<memory.fidelity>> \o @],
          memory |-> memory]

\* SimpleManager.update(protocol, memory, state): the manager and the memory
\* after the call.
update(m, memory, state) ==
    IF state = "RAW"
    THEN [mgr |-> [m EXCEPT !.raw_counter = @ + 1],
          memory |-> reset(memory)]
    ELSE [mgr |-> [m EXCEPT !.ent_counter = @ + 1,
                            !.fidelities = Append(@, memory.fidelity)],
          memory |-> memory]

\* SimpleManager.create_protocol(middle, other): a fresh, unpaired instance.
create_protocol(middle, other) ==
    [state |-> "IDLE", middle |-> middle, other |-> other, remote_memo |-> ""]

\* pair_protocol(node1, node2): set_others on both instances.
pair_protocol(p) ==
    [n \in Nodes |-> [p[n] EXCEPT !.remote_memo = p[n].other \o ".memo"]]

NoResult == <<>>

Frac(n, d) == [num |-> n, den |-> d]

(***************************************************************************)
(* run_experiment: the driver.                                             *)
(***************************************************************************)
ExpInit ==
    /\ pc = "init"
    /\ num_attempts \in 0..MaxAttempts
    /\ attempt = 0
    /\ trans \in TransLevels
    /\ det_eff \in DetEffLevels
    /\ tl_time = 0
    /\ events = <<>>
    /\ proto = pair_protocol([n \in Nodes |-> create_protocol("bsm_node", Other(n))])
    /\ mem = [n \in Nodes |-> [mode |-> "RAW", fidelity |-> 0]]
    /\ mgr = [n \in Nodes |-> NewManager]
    /\ bsm = {}
    /\ lost = {}
    /\ result = NoResult

Init == SchedIdle /\ ExpInit /\ QIdle

\* tl.init(): EntangleGenNode.init resets each node's memory.
TlInit ==
    /\ pc = "init"
    /\ mem' = [n \in Nodes |-> reset(mem[n])]
    /\ pc' = "loop"
    /\ UNCHANGED <<num_attempts, attempt, trans, det_eff, tl_time, events,
                   proto, mgr, bsm, lost, result, schedVars, qVars>>

\* Mutant of AdvancedTime: the clock is set to the gap, not advanced by it.
AdvancedTime_Absolute(now) == AttemptGap

\* tl.time = tl.now() + 1e11
AdvancedTime(now) == now + AttemptGap

\* One iteration of the attempt loop up to the start() calls: advance the
\* clock, create and pair fresh protocol instances.
AttemptBegin ==
    /\ pc = "loop"
    /\ attempt < num_attempts
    /\ tl_time' = AdvancedTime(tl_time)
    /\ proto' = pair_protocol([n \in Nodes |-> create_protocol("bsm_node", Other(n))])
    /\ lost' = {}
    /\ pc' = "start1"
    /\ UNCHANGED <<num_attempts, attempt, trans, det_eff, events, mem, mgr,
                   bsm, result, schedVars, qVars>>

\* EntanglementGeneration start(): valid from IDLE on a paired instance;
\* schedules the photon emission for now() and moves to EMITTED.
start(n) ==
    /\ proto[n].state = "IDLE"
    /\ proto[n].remote_memo # ""
    /\ events' = tl_schedule(events, Ev(tl_time, "emit", n, FALSE))
    /\ proto' = [proto EXCEPT ![n].state = "EMITTED"]

\* Mutant of StartNode1: node1's instance is never started.
StartNode1_Skipped ==
    /\ pc = "start1"
    /\ pc' = "start2"
    /\ UNCHANGED <<num_attempts, attempt, trans, det_eff, tl_time, events,
                   proto, mem, mgr, bsm, lost, result, schedVars, qVars>>

\* node1.protocols[0].start()
StartNode1 ==
    /\ pc = "start1"
    /\ start("node1")
    /\ pc' = "start2"
    /\ UNCHANGED <<num_attempts, attempt, trans, det_eff, tl_time, mem, mgr,
                   bsm, lost, result, schedVars, qVars>>

\* Mutant of StartNode2: node2's instance is never started.
StartNode2_Skipped ==
    /\ pc = "start2"
    /\ pc' = "run"
    /\ UNCHANGED <<num_attempts, attempt, trans, det_eff, tl_time, events,
                   proto, mem, mgr, bsm, lost, result, schedVars, qVars>>

\* node2.protocols[0].start()
StartNode2 ==
    /\ pc = "start2"
    /\ start("node2")
    /\ pc' = "run"
    /\ UNCHANGED <<num_attempts, attempt, trans, det_eff, tl_time, mem, mgr,
                   bsm, lost, result, schedVars, qVars>>

(***************************************************************************)
(* tl.run(): the handlers of the events it dispatches, one per action.     *)
(***************************************************************************)
\* The BSM mediator receives node n's photon at time now: the first photon
\* opens the detection window; the second one, from the paired node, triggers
\* the joint measurement (detector efficiency decides it) and a herald to
\* both nodes. evs are the pending events to add to.
bsm_receive(n, now, evs) ==
    IF bsm = {}
    THEN /\ bsm' = {n}
         /\ events' = tl_schedule(evs, Ev(now + DetectionWindow, "window", "bsm_node", FALSE))
    ELSE \E hit \in Bernoulli(det_eff) :
            /\ bsm' = {}
            /\ events' = send_heralds(evs, now, hit)

\* Photon-emission handler of node n: QuantumChannel.transmit toward the BSM
\* (the photon is lost or delivered), then AWAITING_HERALD with a timeout.
DispatchEmit ==
    /\ pc = "run"
    /\ events # <<>>
    /\ Head(events).kind = "emit"
    /\ LET e == Head(events)
           n == e.node
           evs == tl_schedule(Tail(events), Ev(e.time + HeraldTimeout, "timeout", n, FALSE))
       IN /\ tl_time' = e.time
          /\ proto' = [proto EXCEPT ![n].state = "AWAITING_HERALD"]
          /\ \E delivered \in Bernoulli(trans) :
                IF delivered /\ qc_dst(n) = "bsm_node"
                THEN /\ lost' = lost
                     /\ bsm_receive(n, e.time, evs)
                ELSE /\ lost' = lost \cup {n}
                     /\ bsm' = bsm
                     /\ events' = evs
    /\ UNCHANGED <<pc, num_attempts, attempt, trans, det_eff, mem, mgr,
                   result, schedVars, qVars>>

\* The BSM's detection window elapses: with a photon still waiting for its
\* partner, a failure herald goes to both nodes.
DispatchWindow ==
    /\ pc = "run"
    /\ events # <<>>
    /\ Head(events).kind = "window"
    /\ LET e == Head(events)
       IN /\ tl_time' = e.time
          /\ IF bsm # {}
             THEN /\ bsm' = {}
                  /\ events' = send_heralds(Tail(events), e.time, FALSE)
             ELSE /\ bsm' = bsm
                  /\ events' = Tail(events)
    /\ UNCHANGED <<pc, num_attempts, attempt, trans, det_eff, proto, mem,
                   mgr, lost, result, schedVars, qVars>>

\* Node n's protocol resolves: ENTANGLED sets the memory's fidelity (the base
\* fidelity less a degradation d) and reports it; RAW resets the memory and
\* reports RAW. The report is resource_manager.update.
resolve(n, outcome, d) ==
    LET m0 == IF outcome = "ENTANGLED"
              THEN [mode |-> "ENTANGLED", fidelity |-> RawFidelity - d]
              ELSE reset(mem[n])
        u == update(mgr[n], m0, outcome)
    IN /\ proto' = [proto EXCEPT ![n].state = outcome]
       /\ mem' = [mem EXCEPT ![n] = u.memory]
       /\ mgr' = [mgr EXCEPT ![n] = u.mgr]

\* Herald handler of a node: acts only while AWAITING_HERALD.
DispatchHerald ==
    /\ pc = "run"
    /\ events # <<>>
    /\ Head(events).kind = "herald"
    /\ LET e == Head(events)
           n == e.node
       IN /\ tl_time' = e.time
          /\ events' = Tail(events)
          /\ IF proto[n].state = "AWAITING_HERALD"
             THEN IF e.ok
                  THEN \E d \in 0..MaxDegrade : resolve(n, "ENTANGLED", d)
                  ELSE resolve(n, "RAW", 0)
             ELSE UNCHANGED <<proto, mem, mgr>>
    /\ UNCHANGED <<pc, num_attempts, attempt, trans, det_eff, bsm, lost,
                   result, schedVars, qVars>>

\* Herald timeout of a node: RAW if no herald resolved the attempt yet.
DispatchTimeout ==
    /\ pc = "run"
    /\ events # <<>>
    /\ Head(events).kind = "timeout"
    /\ LET e == Head(events)
           n == e.node
       IN /\ tl_time' = e.time
          /\ events' = Tail(events)
          /\ IF proto[n].state = "AWAITING_HERALD"
             THEN resolve(n, "RAW", 0)
             ELSE UNCHANGED <<proto, mem, mgr>>
    /\ UNCHANGED <<pc, num_attempts, attempt, trans, det_eff, bsm, lost,
                   result, schedVars, qVars>>

\* tl.run() returns once no event is pending; the loop iteration ends.
RunReturn ==
    /\ pc = "run"
    /\ events = <<>>
    /\ attempt' = attempt + 1
    /\ pc' = "loop"
    /\ UNCHANGED <<num_attempts, trans, det_eff, tl_time, events, proto,
                   mem, mgr, bsm, lost, result, schedVars, qVars>>

(***************************************************************************)
(* run_experiment: the statistics.                                         *)
(***************************************************************************)
RECURSIVE Sum(_)
Sum(seq) == IF seq = <<>> THEN 0 ELSE Head(seq) + Sum(Tail(seq))

\* Mutant of SuccessRate: the failures are divided by the total.
SuccessRate_Failures(successes, total) ==
    IF total > 0 THEN Frac(total - successes, total) ELSE Frac(0, 1)

\* success_rate = successes / total if total > 0 else 0
SuccessRate(successes, total) ==
    IF total > 0 THEN Frac(successes, total) ELSE Frac(0, 1)

\* Mutant of Throughput: the division is not guarded.
Throughput_Unguarded(successes, now) == Frac(successes * UnitsPerSecond, now)

\* throughput = successes / sim_time_seconds if sim_time_seconds > 0 else 0,
\* with sim_time_seconds = tl.now() / 1e12
Throughput(successes, now) ==
    IF now > 0 THEN Frac(successes * UnitsPerSecond, now) ELSE Frac(0, 1)

\* avg_fidelity = sum(fidelities) / len(fidelities) if fidelities else 0
AvgFidelity(fidelities) ==
    IF fidelities # <<>> THEN Frac(Sum(fidelities), Len(fidelities)) ELSE Frac(0, 1)

Statistics ==
    /\ pc = "loop"
    /\ attempt >= num_attempts
    /\ LET successes == mgr["node1"].ent_counter
           failures == mgr["node1"].raw_counter
           total == successes + failures
       IN result' = [successes |-> successes,
                     failures |-> failures,
                     success_rate |-> SuccessRate(successes, total),
                     avg_fidelity |-> AvgFidelity(mgr["node1"].fidelities),
                     fidelities |-> mgr["node1"].fidelities,
                     throughput |-> Throughput(successes, tl_time),
                     memory_used |-> successes * 2]
    /\ pc' = "done"
    /\ UNCHANGED <<num_attempts, attempt, trans, det_eff, tl_time, events,
                   proto, mem, mgr, bsm, lost, schedVars, qVars>>

Next ==
    \/ TlInit
    \/ AttemptBegin
    \/ StartNode1
    \/ StartNode2
    \/ DispatchEmit
    \/ DispatchWindow
    \/ DispatchHerald
    \/ DispatchTimeout
    \/ RunReturn
    \/ Statistics

Spec == Init /\ [][Next]_vars

\* run_experiment is one sequential thread: while a step is possible it is
\* taken.
LiveSpec == Init /\ [][Next]_vars /\ WF_vars(Next)

(***************************************************************************)
(* Quantum state primitives: complex amplitude vectors, fidelity.          *)
(*                                                                         *)
(* A complex number is [re, im] over the integers. A state is a vector of  *)
(* complex numbers with a common factor: the state [vec, hpow] stands for  *)
(* the amplitudes vec[i] / AmpUnit * h^hpow, where h = hnum / HDen is the  *)
(* stored value of 1/np.sqrt(2). Sums and products of amplitudes are       *)
(* exact; h is 1/sqrt(2) rounded to HBits binary digits, as the double     *)
(* 1/np.sqrt(2) is to 53.                                                  *)
(***************************************************************************)
RECURSIVE Pow(_, _)
Pow(b, n) == IF n = 0 THEN 1 ELSE b * Pow(b, n - 1)

AmpUnit == 2        \* vec entries are in halves: the amplitude 1.0 is 2

HDen == Pow(2, HBits)

\* The values 1/np.sqrt(2) can be stored as: the multiples of 1/HDen less
\* than one unit away from 1/sqrt(2) (2 * (n -+ 1)^2 <> HDen^2).
HNums ==
    {n \in 1..HDen : 2 * (n - 1) * (n - 1) < HDen * HDen
                     /\ HDen * HDen < 2 * (n + 1) * (n + 1)}

C(re, im) == [re |-> re, im |-> im]

CAdd(x, y) == C(x.re + y.re, x.im + y.im)

CMul(x, y) == C(x.re * y.re - x.im * y.im, x.re * y.im + x.im * y.re)

Conj(x) == C(x.re, -x.im)

\* |x|^2
Abs2(x) == x.re * x.re + x.im * x.im

RECURSIVE CSum(_)
CSum(seq) == IF seq = <<>> THEN C(0, 0) ELSE CAdd(Head(seq), CSum(Tail(seq)))

\* Sum of the squared magnitudes of the entries of vec.
Norm2Int(vec) == Sum([i \in 1..Len(vec) |-> Abs2(vec[i])])

State(vec, hpow) == [vec |-> vec, hpow |-> hpow]

\* (1/np.sqrt(2)) * np.array([1, 0, 0, 1], dtype=complex)
Bell == State(<<C(AmpUnit, 0), C(0, 0), C(0, 0), C(AmpUnit, 0)>>, 1)

\* The single-qubit amplitude vectors fidelity and apply_gate are tried
\* with: entries with real and imaginary part in -1, -1/2, 0, 1/2, 1 and a
\* squared norm of at most 1; np.array([1, 0], dtype=complex) is one of them.
Amps == {C(r, i) : r, i \in (-AmpUnit)..AmpUnit}

Vecs2 == {v \in [1..2 -> Amps] : Norm2Int(v) <= AmpUnit * AmpUnit}

FidStates == {State(v, 0) : v \in Vecs2} \cup {Bell}

\* The squared norm of state s is exactly 1.
Normalized(s) ==
    Norm2Int(s.vec) * Pow(hnum, 2 * s.hpow)
        = AmpUnit * AmpUnit * Pow(HDen, 2 * s.hpow)

\* Mutant of vdot: np.dot, which does not conjugate its first argument.
vdot_NoConj(a, b) == CSum([i \in 1..Len(a) |-> CMul(a[i], b[i])])

\* np.vdot(a, b): the sum of conj(a[i]) * b[i].
vdot(a, b) == CSum([i \in 1..Len(a) |-> CMul(Conj(a[i]), b[i])])

\* fidelity(state1, state2) = np.abs(np.vdot(state1, state2)) ** 2, as
\* num / AmpUnit^4 * h^hpow.
fidelity(state1, state2) ==
    LET inner == vdot(state1.vec, state2.vec)
    IN [status |-> "ok", num |-> Abs2(inner),
        hpow |-> 2 * (state1.hpow + state2.hpow)]

NoFid == [status |-> "none", num |-> 0, hpow |-> 0]

\* The fidelity value f is exactly 1.
IsOne(f) ==
    f.num * Pow(hnum, f.hpow) = Pow(AmpUnit, 4) * Pow(HDen, f.hpow)

FidInit ==
    /\ SchedIdle
    /\ ExpIdle
    /\ hnum \in HNums
    /\ qa \in FidStates
    /\ qb \in FidStates
    /\ fid = NoFid
    /\ qstate = <<>>
    /\ gate = "none"
    /\ napps = 0

\* f = fidelity(state1, state2) on vectors of equal size.
FidelityCalc ==
    /\ fid.status = "none"
    /\ Len(qa.vec) = Len(qb.vec)
    /\ fid' = fidelity(qa, qb)
    /\ UNCHANGED <<hnum, qa, qb, qstate, gate, napps, schedVars, expVars>>

\* np.vdot raises ValueError on vectors of different sizes.
FidelityMismatch ==
    /\ fid.status = "none"
    /\ Len(qa.vec) # Len(qb.vec)
    /\ fid' = [status |-> "ValueError", num |-> 0, hpow |-> 0]
    /\ UNCHANGED <<hnum, qa, qb, qstate, gate, napps, schedVars, expVars>>

FidNext == FidelityCalc \/ FidelityMismatch

FidSpec == FidInit /\ [][FidNext]_vars

(***************************************************************************)
(* Gates and apply_gate. A gate is a matrix of complex integers with a     *)
(* power of the factor h.                                                  *)
(***************************************************************************)
PAULI_X == [mat |-> <<<<C(0, 0), C(1, 0)>>, <<C(1, 0), C(0, 0)>>>>, hpow |-> 0]

PAULI_Y == [mat |-> <<<<C(0, 0), C(0, -1)>>, <<C(0, 1), C(0, 0)>>>>, hpow |-> 0]

\* Mutant of PAULI_Z: the lower right entry is 0, not -1.
PAULI_Z_Projector == [mat |-> <<<<C(1, 0), C(0, 0)>>, <<C(0, 0), C(0, 0)>>>>, hpow |-> 0]

PAULI_Z == [mat |-> <<<<C(1, 0), C(0, 0)>>, <<C(0, 0), C(-1, 0)>>>>, hpow |-> 0]

\* HADAMARD = (1/np.sqrt(2)) * [[1, 1], [1, -1]]
HADAMARD == [mat |-> <<<<C(1, 0), C(1, 0)>>, <<C(1, 0), C(-1, 0)>>>>, hpow |-> 1]

\* apply_gate(state, gate) = gate @ state
apply_gate(state, g) ==
    State([i \in 1..Len(g.mat) |->
              CSum([j \in 1..Len(state.vec) |-> CMul(g.mat[i][j], state.vec[j])])],
          state.hpow + g.hpow)

GateInit ==
    /\ SchedIdle
    /\ ExpIdle
    /\ hnum \in HNums
    /\ qa = <<>>
    /\ qb = <<>>
    /\ fid = <<>>
    /\ qstate \in {State(v, 0) : v \in Vecs2}
    /\ gate = "none"
    /\ napps = 0

\* state = apply_gate(state, g), one iteration of a gate benchmark's loop.
apply(name, g) ==
    /\ qstate' = apply_gate(qstate, g)
    /\ gate' = name
    /\ napps' = napps + 1

ApplyPauliX ==
    /\ napps < MaxApps
    /\ apply("X", PAULI_X)
    /\ UNCHANGED <<hnum, qa, qb, fid, schedVars, expVars>>

ApplyPauliY ==
    /\ napps < MaxApps
    /\ apply("Y", PAULI_Y)
    /\ UNCHANGED <<hnum, qa, qb, fid, schedVars, expVars>>

ApplyPauliZ ==
    /\ napps < MaxApps
    /\ apply("Z", PAULI_Z)
    /\ UNCHANGED <<hnum, qa, qb, fid, schedVars, expVars>>

ApplyHadamard ==
    /\ napps < MaxApps
    /\ apply("H", HADAMARD)
    /\ UNCHANGED <<hnum, qa, qb, fid, schedVars, expVars>>

GateNext == ApplyPauliX \/ ApplyPauliY \/ ApplyPauliZ \/ ApplyHadamard

GateSpec == GateInit /\ [][GateNext]_vars

(***************************************************************************)
(* Claims about the scheduler.                                             *)
(***************************************************************************)

\* C1: the events leave the scheduler in non-decreasing time order: each
\* event returned by next_event has a time >= that of the event returned
\* before it, also when events are scheduled between pops.
C1_DispatchTimeOrdered ==
    \A k \in 1..(Len(popped) - 1) : popped[k].time <= popped[k + 1].time

\* C2: events of equal time are returned in the order they were scheduled:
\* of two returned events with the same time, the one returned first was
\* scheduled first (it has the smaller schedule index, kept in node_id).
C2_EqualTimeFifo ==
    \A j, k \in 1..Len(popped) :
        (j < k /\ popped[j].time = popped[k].time)
            => popped[j].node_id < popped[k].node_id

\* C3: a schedule call with a time earlier than the current simulated time
\* raises CausalityViolation and leaves the pending events unchanged.
C3_PastScheduleFails ==
    [][\A t \in 0..MaxTime :
          (schedule(t) /\ t < Now)
              => (raised' = "CausalityViolation" /\ queue' = queue)]_vars


(***************************************************************************)
(* Claims about run_experiment.                                            *)
(***************************************************************************)
AttemptResolved == pc = "run" /\ events = <<>>

\* Attempts node n has completed: the finished loop iterations, and the
\* running one once n's protocol has resolved.
Completed(n) ==
    attempt + (IF pc = "run" /\ proto[n].state \in Terminal THEN 1 ELSE 0)

\* C4: node1's raw_counter + ent_counter equals the number of completed
\* attempts in every state, and every step leaves both counters alone or
\* increments exactly one of them by one.
C4_CountersSumToAttempts ==
    /\ [](mgr["node1"].raw_counter + mgr["node1"].ent_counter = Completed("node1"))
    /\ [][LET m == mgr["node1"]
              m2 == mgr'["node1"]
          IN \/ (m2.raw_counter = m.raw_counter /\ m2.ent_counter = m.ent_counter)
             \/ (m2.raw_counter = m.raw_counter + 1 /\ m2.ent_counter = m.ent_counter)
             \/ (m2.raw_counter = m.raw_counter /\ m2.ent_counter = m.ent_counter + 1)]_vars

C4_Witness ==
    /\ pc = "done"
    /\ attempt = 2
    /\ mgr["node1"].raw_counter = 1
    /\ mgr["node1"].ent_counter = 1

\* C5: once both instances are started, the attempt eventually resolves:
\* both nodes reach RAW or ENTANGLED with no event pending; and a photon
\* waiting at the BSM for a lost partner does not wait forever.
C5_AttemptResolves ==
    /\ (pc = "run") ~> (events = <<>> /\ \A n \in Nodes : proto[n].state \in Terminal)
    /\ (bsm # {}) ~> (bsm = {})

C5_Witness ==
    /\ AttemptResolved
    /\ Cardinality(lost) = 1
    /\ \A n \in Nodes : proto[n].state = "RAW"

\* C6: at each start() call of the attempt loop the node's memory is RAW.
C6_StartFromRaw ==
    /\ pc = "start1" => mem["node1"].mode = "RAW"
    /\ pc = "start2" => mem["node2"].mode = "RAW"

\* C7: with transmission 1.0 and detector efficiency 1.0 an attempt resolves
\* ENTANGLED on both nodes; with transmission 0.0 it resolves RAW.
C7_IdealAndDeadChannel ==
    AttemptResolved =>
        /\ (trans = 100 /\ det_eff = 100)
              => \A n \in Nodes : proto[n].state = "ENTANGLED"
        /\ trans = 0 => \A n \in Nodes : proto[n].state = "RAW"

C7_Witness ==
    /\ AttemptResolved
    /\ trans = 100
    /\ det_eff = 100
    /\ \A n \in Nodes : proto[n].state = "ENTANGLED" /\ mgr[n].ent_counter = 1

\* C8: the clock never decreases, an event is never dispatched before its
\* scheduled time, and no pending event is earlier than the clock, also
\* across the manual clock advance between attempts.
C8_ClockMonotone ==
    /\ [](\A k \in 1..Len(events) : events[k].time >= tl_time)
    /\ [][/\ tl_time' >= tl_time
          /\ (pc = "run" /\ events # <<>>) => tl_time' >= Head(events).time]_vars

C8_Witness ==
    /\ pc = "start1"
    /\ attempt = 1
    /\ events = <<>>
    /\ tl_time > AttemptGap

\* C9: the fidelity history is append-only: an ENTANGLED record appends the
\* memory's fidelity at the end, a RAW record leaves the history unchanged,
\* and the history is as long as ent_counter.
C9_HistoryAppendOnly ==
    /\ [](\A n \in Nodes : Len(mgr[n].fidelities) = mgr[n].ent_counter)
    /\ [][\A n \in Nodes :
            LET m == mgr[n]
                m2 == mgr'[n]
            IN \/ m2 = m
               \/ /\ m2.ent_counter = m.ent_counter + 1
                  /\ m2.raw_counter = m.raw_counter
                  /\ m2.fidelities = Append(m.fidelities, mem'[n].fidelity)
               \/ /\ m2.raw_counter = m.raw_counter + 1
                  /\ m2.ent_counter = m.ent_counter
                  /\ m2.fidelities = m.fidelities]_vars

C9_Witness ==
    /\ Len(mgr["node1"].fidelities) = 2
    /\ mgr["node1"].fidelities[1] # mgr["node1"].fidelities[2]

\* C10: the reported success rate is ent_counter / (ent_counter +
\* raw_counter) when an attempt was recorded, and 0 when none was.
C10_SuccessRate ==
    pc = "done" =>
        LET e == mgr["node1"].ent_counter
            r == mgr["node1"].raw_counter
            rate == result.success_rate
        IN IF e + r > 0
           THEN rate.den # 0 /\ rate.num * (e + r) = e * rate.den
           ELSE rate.num = 0 /\ rate.den # 0

C10_Witness ==
    /\ pc = "done"
    /\ mgr["node1"].ent_counter = 1
    /\ mgr["node1"].raw_counter = 1
    /\ result.success_rate = Frac(1, 2)

\* C11: the reported throughput is 0, with no division by zero, when the
\* elapsed simulated time is zero (num_attempts = 0), and otherwise the
\* successes divided by the elapsed simulated time in seconds.
C11_Throughput ==
    pc = "done" =>
        LET e == mgr["node1"].ent_counter
            t == result.throughput
        IN /\ t.den # 0
           /\ IF tl_time = 0
              THEN t.num = 0
              ELSE t.num * tl_time = e * UnitsPerSecond * t.den

C11_Witness ==
    /\ pc = "done"
    /\ num_attempts = 0
    /\ tl_time = 0
    /\ result.throughput = Frac(0, 1)

\* C14: after every completed attempt node1's and node2's managers have
\* equal ent_counter and equal raw_counter, so the statistics computed from
\* node1 alone (successes, failures, memory_used = 2 * successes) describe
\* the pair.
C14_NodesAgree ==
    /\ (AttemptResolved \/ pc \in {"loop", "start1", "start2", "done"})
          => /\ mgr["node1"].ent_counter = mgr["node2"].ent_counter
             /\ mgr["node1"].raw_counter = mgr["node2"].raw_counter
    /\ pc = "done"
          => /\ result.successes = mgr["node2"].ent_counter
             /\ result.failures = mgr["node2"].raw_counter
             /\ result.memory_used
                   = mgr["node1"].ent_counter + mgr["node2"].ent_counter

C14_Witness ==
    /\ pc = "done"
    /\ attempt = 2
    /\ mgr["node2"].ent_counter = 1
    /\ mgr["node2"].raw_counter = 1
    /\ result.memory_used = 2

(***************************************************************************)
(* Claims about the quantum state primitives.                              *)
(***************************************************************************)

Abs(x) == IF x < 0 THEN -x ELSE x

\* The squared norms of qstate before (n) and after (n2) a step, brought to
\* the same power of h: n2 * hnum^(2d) / HDen^(2d) against n.
NormAfter == Norm2Int(qstate'.vec) * Pow(hnum, 2 * (qstate'.hpow - qstate.hpow))

NormBefore == Norm2Int(qstate.vec) * Pow(HDen, 2 * (qstate'.hpow - qstate.hpow))

====
